---- MODULE Spec2Model ----
(***************************************************************************)
(* Analytics routes of the reporting backend (routes/analytics.ts): the    *)
(* dashboard, completion trend, user workload and recommendation handlers, *)
(* the PostgREST query builder they share, and the TTL response cache in   *)
(* front of the cached routes.                                             *)
(*                                                                         *)
(* Time is in milliseconds since the epoch (Date.getTime()); a calendar    *)
(* day string "YYYY-MM-DD" (toISOString().split('T')[0]) is modelled by    *)
(* the UTC day number it denotes.  The process runs with no TZ set         *)
(* (Dockerfile: node:20-alpine), so local time is UTC.                     *)
(***************************************************************************)
EXTENDS Integers, Sequences, FiniteSets, TLC

VARIABLES
    now,        \* the wall clock, ms
    tasks,      \* table tasks: sequence of rows
    issues,     \* table issues: sequence of rows
    profiles,   \* table profiles: sequence of rows
    cache,      \* the response cache: set of entries
    pc,         \* position of the request in hand
    rq,         \* the request in hand: route, caller, query parameters
    loc,        \* its handler's local variables
    resp,       \* the response sent for rq
    others,     \* the other requests in flight, each suspended at an await
    hist,       \* history: every cache write so far
    env         \* what the environment may still do: writes, failures, requests, ticks

vars == <<now, tasks, issues, profiles, others, cache, pc, rq, loc, resp, hist, env>>

----------------------------------------------------------------------------
(* Bounds of the model *)

MaxWrites == 1
MaxFails == 1
MaxRequests == 2
MaxTicks == 5
MaxDays == 3
MaxInFlight == 2

----------------------------------------------------------------------------
(* Values *)

Null == "null"
NullCount == 0 - 1
MS_PER_MINUTE == 60 * 1000
MS_PER_DAY == 24 * 60 * MS_PER_MINUTE

Admin == [id |-> "a1", role |-> "admin"]
Member1 == [id |-> "u1", role |-> "member"]
Member2 == [id |-> "u2", role |-> "member"]
Callers == {Admin, Member1, Member2}

RECURSIVE SelectRows(_, _)
SelectRows(rows, keep) ==
    IF rows = <<>> THEN <<>>
    ELSE IF keep[1] THEN <<Head(rows)>> \o SelectRows(Tail(rows), Tail(keep))
    ELSE SelectRows(Tail(rows), Tail(keep))

----------------------------------------------------------------------------
(* The query builder.  A builder is a table name and the filters appended  *)
(* so far; every filter method appends to the same builder and returns it, *)
(* and every await of a builder sends the request it then describes.       *)

From(table) == [table |-> table, filters |-> <<>>]

AddFilter(q, f) == [q EXCEPT !.filters = Append(@, f)]

Eq(q, col, val) == AddFilter(q, [op |-> "eq", col |-> col, val |-> val])
Neq(q, col, val) == AddFilter(q, [op |-> "neq", col |-> col, val |-> val])
Lt(q, col, val) == AddFilter(q, [op |-> "lt", col |-> col, val |-> val])
Gte(q, col, val) == AddFilter(q, [op |-> "gte", col |-> col, val |-> val])
Lte(q, col, val) == AddFilter(q, [op |-> "lte", col |-> col, val |-> val])
Or(q, cols, val) == AddFilter(q, [op |-> "or", col |-> cols, val |-> val])

Matches(row, f) ==
    CASE f.op = "eq" -> row[f.col] = f.val
      [] f.op = "neq" -> row[f.col] # f.val
      [] f.op = "lt" -> row[f.col] # NullCount /\ row[f.col] < f.val
      [] f.op = "gte" -> row[f.col] # NullCount /\ row[f.col] >= f.val
      [] f.op = "lte" -> row[f.col] # NullCount /\ row[f.col] <= f.val
      [] f.op = "or" -> \E c \in f.col : row[c] = f.val

Table(name) ==
    CASE name = "tasks" -> tasks
      [] name = "issues" -> issues
      [] name = "profiles" -> profiles

MatchesAll(row, q) == \A i \in 1..Len(q.filters) : Matches(row, q.filters[i])

(* The answer of the store to an awaited builder: {data, count, error}. *)
Run(q) ==
    LET rows == Table(q.table)
        data == SelectRows(rows, [i \in 1..Len(rows) |-> MatchesAll(rows[i], q)])
    IN  [error |-> FALSE, data |-> data, count |-> Len(data)]

Failed == [error |-> TRUE, data |-> <<>>, count |-> NullCount]

----------------------------------------------------------------------------
(* Scope of a caller, and the TTL response cache (middleware/cache.ts).    *)

isAdmin(caller) == caller.role = "admin"

EffectiveScope(caller) == IF isAdmin(caller) THEN "admin" ELSE caller.id

CachedRoutes == {"dashboard", "trend", "workload"}

(* Mutant: the two TTL values exchanged between the routes. *)
TTL_exchanged(route) ==
    CASE route = "dashboard" -> 3 * 60 * 1000
      [] route = "trend" -> 3 * 60 * 1000
      [] route = "workload" -> 5 * 60 * 1000

TTL(route) ==
    CASE route = "dashboard" -> 5 * 60 * 1000
      [] route = "trend" -> 5 * 60 * 1000
      [] route = "workload" -> 3 * 60 * 1000

CacheKey(route, caller, params) ==
    [route |-> route, scope |-> EffectiveScope(caller), params |-> params]

Valid(e, t) == t < e.created_at + e.ttl

CacheGet(c, key, t) == {e \in c : e.key = key /\ Valid(e, t)}

CacheEvict(c, key, t) == {e \in c : ~(e.key = key /\ ~Valid(e, t))}

CachePut(c, key, payload, ttl, t, who) ==
    {e \in c : e.key # key}
        \cup {[key |-> key, payload |-> payload, created_at |-> t, ttl |-> ttl,
               madeFor |-> who]}

RequestKey == CacheKey(rq.route, rq.caller, rq.days)

NoResponse ==
    [status |-> 0, body |-> Null, cached |-> FALSE, madeFor |-> Null, storeError |-> FALSE,
     stored |-> FALSE]

(* res.json / res.status(n).json: the response is sent, and the cache      *)
(* middleware stores the body of a successful response of a cached route.  *)
(* madeFor, storeError and stored are history: whose scope the body was    *)
(* computed under, whether a query of that computation had failed, and     *)
(* whether the body was written to the cache.                              *)
SendFrom(c, status, body, failed) ==
    LET store == status = 200 /\ rq.route \in CachedRoutes
    IN  /\ resp' = [status |-> status, body |-> body, cached |-> FALSE,
                    madeFor |-> rq.caller.id, storeError |-> failed, stored |-> store]
        /\ pc' = "done"
        /\ cache' = IF store
                    THEN CachePut(c, RequestKey, body, TTL(rq.route), now, rq.caller.id)
                    ELSE c
        /\ hist' = IF store
                   THEN hist \cup {[key |-> RequestKey, payload |-> body, at |-> now,
                                    storeError |-> failed]}
                   ELSE hist

Send(status, body) == SendFrom(cache, status, body, loc'.storeError)

(* An awaited query: the store answers, or fails with an error indicator.  *)
Await(ok) ==
    /\ ok \/ env.fails > 0
    /\ env' = IF ok THEN env ELSE [env EXCEPT !.fails = @ - 1]

Answer(ok, q) == IF ok THEN Run(q) ELSE Failed

Set(l, name, val) == (name :> val) @@ l

(* History kept with the locals: a query of this request has failed, and   *)
(* how many queries the request has sent to the store.                     *)
Noted(l, ok) ==
    Set(Set(l, "storeError", l.storeError \/ ~ok), "queries", l.queries + 1)

----------------------------------------------------------------------------
(* GET /dashboard *)

OrZero(n) == IF n = NullCount THEN 0 ELSE n

(* Numbers are IEEE 754 doubles.  A positive double is a significand of   *)
(* 53 bits, the first of them 1, and an exponent: its value is the         *)
(* significand, read as 1.b2...b53 in binary, times 2^exp.  The 52 bits    *)
(* after the first are held as four limbs of 13 bits, the most significant *)
(* first.  Counts are below 2^18.                                          *)
LimbBase == 8192

RECURSIVE Pow2(_)
Pow2(n) == IF n = 0 THEN 1 ELSE 2 * Pow2(n - 1)

RECURSIVE BitLength(_)
BitLength(n) == IF n = 0 THEN 0 ELSE 1 + BitLength(n \div 2)

RECURSIVE ScaleUp(_, _, _)
ScaleUp(n, d, e) == IF n >= d THEN [n |-> n, d |-> d, e |-> e] ELSE ScaleUp(2 * n, d, e - 1)

RECURSIVE ScaleDown(_, _, _)
ScaleDown(n, d, e) ==
    IF n < 2 * d THEN [n |-> n, d |-> d, e |-> e] ELSE ScaleDown(n, 2 * d, e + 1)

(* The next count limbs of the quotient r / d, r < d, and what remains. *)
RECURSIVE QuotientLimbs(_, _, _)
QuotientLimbs(r, d, count) ==
    IF count = 0 THEN [limbs |-> <<>>, rem |-> r]
    ELSE LET rest == QuotientLimbs((r * LimbBase) % d, d, count - 1)
         IN  [limbs |-> <<(r * LimbBase) \div d>> \o rest.limbs, rem |-> rest.rem]

RECURSIVE Increment(_)
Increment(limbs) ==
    IF limbs = <<>> THEN [limbs |-> <<>>, carry |-> 1]
    ELSE LET front == SubSeq(limbs, 1, Len(limbs) - 1)
             last == limbs[Len(limbs)]
         IN  IF last + 1 < LimbBase THEN [limbs |-> Append(front, last + 1), carry |-> 0]
             ELSE [limbs |-> Append(Increment(front).limbs, 0),
                   carry |-> Increment(front).carry]

(* Round to nearest, ties to even: one is added in the last place when up; *)
(* a significand that reaches 2 becomes 1 with the next exponent.          *)
Rounded(limbs, e, up) ==
    IF ~up THEN [limbs |-> limbs, exp |-> e]
    ELSE IF Increment(limbs).carry = 0 THEN [limbs |-> Increment(limbs).limbs, exp |-> e]
    ELSE [limbs |-> <<0, 0, 0, 0>>, exp |-> e + 1]

(* c / t for integers c, t >= 1 *)
Divide(c, t) ==
    LET s == IF c < t THEN ScaleUp(c, t, 0) ELSE ScaleDown(c, t, 0)
        q == QuotientLimbs(s.n - s.d, s.d, 4)
        up == 2 * q.rem > s.d \/ (2 * q.rem = s.d /\ q.limbs[4] % 2 = 1)
    IN  Rounded(q.limbs, s.e, up)

(* The limbs of the exact product of the limbs with a small integer, and   *)
(* what is carried into the place above them.                              *)
RECURSIVE TimesLimbs(_, _)
TimesLimbs(limbs, factor) ==
    IF limbs = <<>> THEN [limbs |-> <<>>, carry |-> 0]
    ELSE LET rest == TimesLimbs(Tail(limbs), factor)
             v == Head(limbs) * factor + rest.carry
         IN  [limbs |-> <<v % LimbBase>> \o rest.limbs, carry |-> v \div LimbBase]

(* x * factor for a double x > 0 and an integer factor, 1 <= factor < 2^13 *)
Times(x, factor) ==
    LET p == TimesLimbs(x.limbs, factor)
        top == factor + p.carry
        shift == BitLength(top) - 1
        unit == Pow2(shift)
        full == <<top>> \o p.limbs
        kept == [i \in 1..4 |->
                    (full[i] % unit) * (LimbBase \div unit) + full[i + 1] \div unit]
        dropped == full[5] % unit
        up == /\ shift > 0
              /\ \/ 2 * dropped > unit
                 \/ 2 * dropped = unit /\ kept[4] % 2 = 1
    IN  Rounded(kept, x.exp + shift, up)

RECURSIVE LimbsValue(_)
LimbsValue(limbs) ==
    IF limbs = <<>> THEN 0
    ELSE LimbBase * LimbsValue(SubSeq(limbs, 1, Len(limbs) - 1)) + limbs[Len(limbs)]

(* Math.round(x) for a double 0 < x < 2^25: the nearest integer, a half    *)
(* goes up; computed from the number of halves in x.                       *)
MathRound(x) ==
    LET shift == 51 - x.exp
        whole == shift \div 13
        halves == IF whole >= 5 THEN 0
                  ELSE LimbsValue(SubSeq(<<1>> \o x.limbs, 1, 5 - whole))
                           \div Pow2(shift % 13)
    IN  (halves + 1) \div 2

(* Math.round(c / t * 100) for c >= 0, t > 0 *)
MathRoundPct(c, t) == IF c = 0 THEN 0 ELSE MathRound(Times(Divide(c, t), 100))

completionRate(totalTasks, completedTasks) ==
    IF totalTasks # NullCount /\ totalTasks > 0
    THEN MathRoundPct(OrZero(completedTasks), totalTasks)
    ELSE 0

CountBy(rows, col, val) == Cardinality({i \in 1..Len(rows) : rows[i][col] = val})

(* Mutant: the scope filter of a non-admin caller is left out. *)
tasksQueryBase_unscoped(caller) == From("tasks")

tasksQueryBase(caller) ==
    IF isAdmin(caller) THEN From("tasks")
    ELSE Or(From("tasks"), {"assigned_to", "created_by"}, caller.id)

issuesQueryBase(caller) ==
    IF isAdmin(caller) THEN From("issues")
    ELSE Or(From("issues"), {"reported_by", "suggested_assignee_id", "assigned_to"},
            caller.id)

DashboardEnter(caller) ==
    [storeError |-> FALSE,
     tasksQuery |-> tasksQueryBase(caller),
     issuesQuery |-> issuesQueryBase(caller)]

DashTotal ==
    /\ pc = "d_total"
    /\ \E ok \in BOOLEAN :
        /\ Await(ok)
        /\ LET r == Answer(ok, loc.tasksQuery)
               l1 == Set(Noted(loc, ok), "totalTasks", r.count)
           IN  loc' = Set(l1, "tasksQuery", Eq(loc.tasksQuery, "status", "completed"))
    /\ pc' = "d_completed"
    /\ UNCHANGED <<now, tasks, issues, profiles, others, cache, rq, resp, hist>>

DashCompleted ==
    /\ pc = "d_completed"
    /\ \E ok \in BOOLEAN :
        /\ Await(ok)
        /\ LET r == Answer(ok, loc.tasksQuery)
               l1 == Set(Noted(loc, ok), "completedTasks", r.count)
           IN  loc' = Set(l1, "tasksQuery", Eq(loc.tasksQuery, "status", "in_progress"))
    /\ pc' = "d_inprogress"
    /\ UNCHANGED <<now, tasks, issues, profiles, others, cache, rq, resp, hist>>

DashInProgress ==
    /\ pc = "d_inprogress"
    /\ \E ok \in BOOLEAN :
        /\ Await(ok)
        /\ LET r == Answer(ok, loc.tasksQuery)
               l1 == Set(Noted(loc, ok), "inProgressTasks", r.count)
           IN  loc' = Set(l1, "issuesQuery",
                          Eq(loc.issuesQuery, "status", "pending_assignment"))
    /\ pc' = "d_pending"
    /\ UNCHANGED <<now, tasks, issues, profiles, others, cache, rq, resp, hist>>

DashPending ==
    /\ pc = "d_pending"
    /\ \E ok \in BOOLEAN :
        /\ Await(ok)
        /\ LET r == Answer(ok, loc.issuesQuery)
               l1 == Set(Noted(loc, ok), "pendingIssues", r.count)
           IN  loc' = Set(l1, "tasksQuery",
                          Neq(Lt(loc.tasksQuery, "due_date", now), "status", "completed"))
    /\ pc' = "d_overdue"
    /\ UNCHANGED <<now, tasks, issues, profiles, others, cache, rq, resp, hist>>

DashOverdue ==
    /\ pc = "d_overdue"
    /\ \E ok \in BOOLEAN :
        /\ Await(ok)
        /\ LET r == Answer(ok, loc.tasksQuery)
               l1 == Set(Noted(loc, ok), "overdueTasks", r.count)
           IN  loc' = Set(l1, "completionRate",
                          completionRate(loc.totalTasks, loc.completedTasks))
    /\ pc' = "d_tasks"
    /\ UNCHANGED <<now, tasks, issues, profiles, others, cache, rq, resp, hist>>

priorityBreakdown(rows) ==
    [low |-> CountBy(rows, "priority", "low"),
     medium |-> CountBy(rows, "priority", "medium"),
     high |-> CountBy(rows, "priority", "high"),
     critical |-> CountBy(rows, "priority", "critical")]

statusBreakdown(rows, inProgressTasks, completedTasks) ==
    [not_started |-> CountBy(rows, "status", "not_started"),
     in_progress |-> OrZero(inProgressTasks),
     completed |-> OrZero(completedTasks),
     blocked |-> CountBy(rows, "status", "blocked")]

issueStatusBreakdown(rows, pendingIssues) ==
    [pending_assignment |-> OrZero(pendingIssues),
     assigned |-> CountBy(rows, "status", "assigned"),
     in_progress |-> CountBy(rows, "status", "in_progress"),
     resolved |-> CountBy(rows, "status", "resolved"),
     closed |-> CountBy(rows, "status", "closed")]

DashTasks ==
    /\ pc = "d_tasks"
    /\ \E ok \in BOOLEAN :
        /\ Await(ok)
        /\ LET r == Answer(ok, loc.tasksQuery)
           IN  loc' = Set(Noted(loc, ok), "tasksByPriority", r.data)
    /\ pc' = "d_issues"
    /\ UNCHANGED <<now, tasks, issues, profiles, others, cache, rq, resp, hist>>

metrics(l, issuesByPriority) ==
    [tasks |->
        [total |-> OrZero(l.totalTasks),
         completed |-> OrZero(l.completedTasks),
         inProgress |-> OrZero(l.inProgressTasks),
         overdue |-> OrZero(l.overdueTasks),
         completionRate |-> l.completionRate,
         byPriority |-> priorityBreakdown(l.tasksByPriority),
         byStatus |-> statusBreakdown(l.tasksByPriority, l.inProgressTasks,
                                      l.completedTasks)],
     issues |->
        [total |-> Len(issuesByPriority),
         pending |-> OrZero(l.pendingIssues),
         byPriority |-> priorityBreakdown(issuesByPriority),
         byStatus |-> issueStatusBreakdown(issuesByPriority, l.pendingIssues)]]

DashIssues ==
    /\ pc = "d_issues"
    /\ \E ok \in BOOLEAN :
        /\ Await(ok)
        /\ LET r == Answer(ok, loc.issuesQuery)
           IN  /\ loc' = Noted(loc, ok)
               /\ Send(200, [data |-> metrics(loc, r.data)])
    /\ UNCHANGED <<now, tasks, issues, profiles, others, rq>>

----------------------------------------------------------------------------
(* GET /task-completion-trend *)

Digit ==
    [c \in {"0", "1", "2", "3", "4", "5", "6", "7", "8", "9"} |->
        CASE c = "0" -> 0 [] c = "1" -> 1 [] c = "2" -> 2 [] c = "3" -> 3
          [] c = "4" -> 4 [] c = "5" -> 5 [] c = "6" -> 6 [] c = "7" -> 7
          [] c = "8" -> 8 [] c = "9" -> 9]

(* The characters parseInt skips at the start of its input (white space   *)
(* and line terminators).  A text is a sequence of characters; a character *)
(* outside ASCII, and the vertical tab, is written as its \uXXXX escape.   *)
StrWhiteSpaceChar ==
    {" ", "\t", "\n", "\r", "\f", "\\u000b", "\\u00a0", "\\ufeff", "\\u1680",
     "\\u2000", "\\u2001", "\\u2002", "\\u2003", "\\u2004", "\\u2005", "\\u2006",
     "\\u2007", "\\u2008", "\\u2009", "\\u200a", "\\u2028", "\\u2029", "\\u202f",
     "\\u205f", "\\u3000"}

RECURSIVE SkipSpaces(_)
SkipSpaces(s) ==
    IF s # <<>> /\ Head(s) \in StrWhiteSpaceChar THEN SkipSpaces(Tail(s)) ELSE s

RECURSIVE DigitsPrefix(_)
DigitsPrefix(s) ==
    IF s # <<>> /\ Head(s) \in DOMAIN Digit
    THEN <<Head(s)>> \o DigitsPrefix(Tail(s))
    ELSE <<>>

RECURSIVE DigitsValue(_)
DigitsValue(d) ==
    IF d = <<>> THEN 0
    ELSE 10 * DigitsValue(SubSeq(d, 1, Len(d) - 1)) + Digit[d[Len(d)]]

Number(v) == [nan |-> FALSE, val |-> v]
NaN == [nan |-> TRUE, val |-> 0]

(* parseInt(s, 10): leading white space, an optional sign, the longest run *)
(* of digits; NaN when there is none.                                      *)
parseInt(s) ==
    LET t == SkipSpaces(s)
        signed == t # <<>> /\ Head(t) \in {"+", "-"}
        d == DigitsPrefix(IF signed THEN Tail(t) ELSE t)
    IN  IF d = <<>> THEN NaN
        ELSE IF signed /\ Head(t) = "-" THEN Number(0 - DigitsValue(d))
        ELSE Number(DigitsValue(d))

NoParam == [present |-> FALSE, text |-> <<>>]
Param(text) == [present |-> TRUE, text |-> text]

(* const { days = '30' } = req.query; parseInt(days, 10) *)
daysNum(days) == parseInt(IF days.present THEN days.text ELSE <<"3", "0">>)

(* toISOString().split('T')[0] *)
DateStr(ms) == ms \div MS_PER_DAY

(* date.setDate(date.getDate() + n): n days later, or -n days earlier; one *)
(* day at a time, which keeps every intermediate value in TLC's integers.  *)
RECURSIVE AddDays(_, _)
AddDays(ms, n) ==
    IF n = 0 THEN ms
    ELSE IF n > 0 THEN AddDays(ms + MS_PER_DAY, n - 1)
    ELSE AddDays(ms - MS_PER_DAY, n + 1)

(* startDate.setDate(startDate.getDate() - daysNum) on new Date() *)
startDate(t, n) ==
    IF n.nan THEN [invalid |-> TRUE, ms |-> 0]
    ELSE [invalid |-> FALSE, ms |-> AddDays(t, 0 - n.val)]

trendQuery(caller, start, end) ==
    LET ranged == Lte(Gte(From("tasks"), "created_at", start), "created_at", end)
    IN  IF isAdmin(caller) THEN ranged
        ELSE Or(ranged, {"assigned_to", "created_by"}, caller.id)

bucket(rows, dateStr) ==
    [date |-> dateStr,
     created |-> Cardinality({j \in 1..Len(rows) : DateStr(rows[j].created_at) = dateStr}),
     completed |-> Cardinality({j \in 1..Len(rows) :
                        /\ rows[j].status = "completed"
                        /\ rows[j].updated_at # NullCount
                        /\ DateStr(rows[j].updated_at) = dateStr})]

(* Mutant: the loop runs while i <= daysNum. *)
trendData_inclusive(rows, start, n) ==
    [k \in 1..(n + 1) |-> bucket(rows, DateStr(AddDays(start, k - 1)))]

(* for (let i = 0; i < daysNum; i++) ... trendData.push(...) *)
trendData(rows, start, n) ==
    [k \in 1..n |-> bucket(rows, DateStr(AddDays(start, k - 1)))]

DatabaseError == [error |-> "Database error", message |-> "store error"]
InternalError == [error |-> "Internal server error", message |-> "Invalid time value"]

(* The handler up to its first await.  startDate.toISOString() throws a    *)
(* RangeError on an invalid date, which the catch answers with 500.        *)
TrendEnter(caller, days) ==
    LET n == daysNum(days)
        start == startDate(now, n)
    IN  [storeError |-> FALSE, threw |-> start.invalid, daysNum |-> n,
         startDate |-> start.ms, endDate |-> now,
         query |-> trendQuery(caller, start.ms, now)]

TrendQuery ==
    /\ pc = "t_query"
    /\ \E ok \in BOOLEAN :
        /\ Await(ok)
        /\ LET r == Answer(ok, loc.query)
           IN  /\ loc' = Noted(loc, ok)
               /\ IF r.error
                  THEN Send(400, DatabaseError)
                  ELSE Send(200, [data |-> trendData(r.data, loc.startDate,
                                                     loc.daysNum.val)])
    /\ UNCHANGED <<now, tasks, issues, profiles, others, rq>>

----------------------------------------------------------------------------
(* The router: authenticateUser has resolved the caller; the request then  *)
(* passes the route's middleware and enters its handler, which runs up to  *)
(* its first await.                                                        *)

InFlight == pc \notin {"idle", "done"}

Suspended == [pc |-> pc, rq |-> rq, loc |-> loc]

(* A request arrives, also while others are in flight: the one in hand     *)
(* stays suspended at its await, and the new one is taken in hand.         *)
Arrive(route, caller, days) ==
    /\ env.requests > 0
    /\ InFlight => Len(others) + 1 < MaxInFlight
    /\ env' = [env EXCEPT !.requests = @ - 1]
    /\ others' = IF InFlight THEN Append(others, Suspended) ELSE others
    /\ rq' = [route |-> route, caller |-> caller, days |-> days]
    /\ loc' = [storeError |-> FALSE, queries |-> 0, clientGone |-> FALSE]
    /\ resp' = NoResponse
    /\ pc' = "mw"
    /\ UNCHANGED <<now, tasks, issues, profiles, cache, hist>>

(* The event loop turns to another request in flight, whose await has been *)
(* answered: it is taken in hand, and the one in hand, when it is still in *)
(* flight, stays suspended in its place.                                   *)
Resume(i) ==
    /\ i \in 1..Len(others)
    /\ pc' = others[i].pc
    /\ rq' = others[i].rq
    /\ loc' = others[i].loc
    /\ resp' = NoResponse
    /\ others' = IF InFlight THEN [others EXCEPT ![i] = Suspended]
                 ELSE SubSeq(others, 1, i - 1) \o SubSeq(others, i + 1, Len(others))
    /\ UNCHANGED <<now, tasks, issues, profiles, cache, hist, env>>

(* History kept with the locals: the time of the lookup, the cache writes  *)
(* made for the key before it, and the cache as the request found it.      *)
Lookup ==
    [lookupAt |-> now, prior |-> {h \in hist : h.key = RequestKey}, before |-> cache]

Hit(e) ==
    /\ resp' = [status |-> 200, body |-> e.payload, cached |-> TRUE,
                madeFor |-> e.madeFor, storeError |-> FALSE, stored |-> FALSE]
    /\ pc' = "done"
    /\ loc' = Lookup @@ loc
    /\ UNCHANGED <<cache, hist>>

Miss(enterLoc, enterPc) ==
    /\ cache' = CacheEvict(cache, RequestKey, now)
    /\ loc' = enterLoc @@ Lookup @@ loc
    /\ pc' = enterPc
    /\ UNCHANGED <<resp, hist>>

cacheMiddleware(enterLoc, enterPc) ==
    LET found == CacheGet(cache, RequestKey, now)
    IN  IF found # {} THEN Hit(CHOOSE e \in found : TRUE) ELSE Miss(enterLoc, enterPc)

EnterDashboard ==
    /\ pc = "mw"
    /\ rq.route = "dashboard"
    /\ cacheMiddleware(DashboardEnter(rq.caller), "d_total")
    /\ UNCHANGED <<now, tasks, issues, profiles, others, rq, env>>

EnterTrend ==
    /\ pc = "mw"
    /\ rq.route = "trend"
    /\ LET l == TrendEnter(rq.caller, rq.days)
           found == CacheGet(cache, RequestKey, now)
       IN  IF found = {} /\ l.threw
           THEN /\ loc' = l @@ Lookup @@ loc
                /\ SendFrom(CacheEvict(cache, RequestKey, now), 500, InternalError, FALSE)
           ELSE cacheMiddleware(l, "t_query")
    /\ UNCHANGED <<now, tasks, issues, profiles, others, rq, env>>

(* requireAdmin (middleware/auth.ts): a caller who is no admin is answered *)
(* 403 and the request goes no further.                                    *)
Forbidden == [error |-> "Forbidden", message |-> "Admin access required"]

requireAdmin(caller) == isAdmin(caller)

----------------------------------------------------------------------------
(* GET /user-workload *)

(* Mutant: the cache middleware mounted before requireAdmin. *)
EnterWorkload_cacheFirst ==
    /\ pc = "mw"
    /\ rq.route = "workload"
    /\ LET found == CacheGet(cache, RequestKey, now)
       IN  IF found = {} /\ ~requireAdmin(rq.caller)
           THEN /\ loc' = Lookup @@ loc
                /\ SendFrom(CacheEvict(cache, RequestKey, now), 403, Forbidden, FALSE)
           ELSE cacheMiddleware([storeError |-> FALSE], "w_users")
    /\ UNCHANGED <<now, tasks, issues, profiles, others, rq, env>>

EnterWorkload ==
    /\ pc = "mw"
    /\ rq.route = "workload"
    /\ IF requireAdmin(rq.caller)
       THEN cacheMiddleware([storeError |-> FALSE], "w_users")
       ELSE /\ SendFrom(cache, 403, Forbidden, FALSE)
            /\ loc' = loc
    /\ UNCHANGED <<now, tasks, issues, profiles, others, rq, env>>

userTasks(user) == Eq(From("tasks"), "assigned_to", user.id)

workloadQuery(user, step) ==
    CASE step = "total" -> userTasks(user)
      [] step = "completed" -> Eq(userTasks(user), "status", "completed")
      [] step = "inProgress" -> Eq(userTasks(user), "status", "in_progress")

(* One mapped user of the Promise.all: its position and its counts so far. *)
WorkStart == [step |-> "total", totalTasks |-> NullCount, completedTasks |-> NullCount,
              inProgressTasks |-> NullCount]

WorkAdvance(w, count) ==
    CASE w.step = "total" -> [w EXCEPT !.totalTasks = count, !.step = "completed"]
      [] w.step = "completed" -> [w EXCEPT !.completedTasks = count, !.step = "inProgress"]
      [] w.step = "inProgress" -> [w EXCEPT !.inProgressTasks = count, !.step = "joined"]

workloadData(users, work) ==
    [i \in 1..Len(users) |->
        [userId |-> users[i].id,
         userName |-> users[i].full_name,
         email |-> users[i].email,
         totalTasks |-> OrZero(work[i].totalTasks),
         completedTasks |-> OrZero(work[i].completedTasks),
         inProgressTasks |-> OrZero(work[i].inProgressTasks),
         completionRate |-> completionRate(work[i].totalTasks, work[i].completedTasks)]]

WorkUsers ==
    /\ pc = "w_users"
    /\ \E ok \in BOOLEAN :
        /\ Await(ok)
        /\ LET r == Answer(ok, From("profiles"))
               l == Set(Set(Noted(loc, ok), "users", r.data),
                        "work", [i \in 1..Len(r.data) |-> WorkStart])
           IN  /\ loc' = l
               /\ IF r.error THEN Send(400, DatabaseError)
                  ELSE IF r.data = <<>> THEN Send(200, [data |-> <<>>])
                  ELSE /\ pc' = "w_fan"
                       /\ UNCHANGED <<cache, resp, hist>>
    /\ UNCHANGED <<now, tasks, issues, profiles, others, rq>>

WorkStep(i) ==
    /\ pc = "w_fan"
    /\ i \in 1..Len(loc.users)
    /\ loc.work[i].step # "joined"
    /\ \E ok \in BOOLEAN :
        /\ Await(ok)
        /\ LET r == Answer(ok, workloadQuery(loc.users[i], loc.work[i].step))
               work == [loc.work EXCEPT ![i] = WorkAdvance(@, r.count)]
           IN  /\ loc' = Set(Noted(loc, ok), "work", work)
               /\ IF \A j \in 1..Len(work) : work[j].step = "joined"
                  THEN Send(200, [data |-> workloadData(loc.users, work)])
                  ELSE UNCHANGED <<pc, cache, resp, hist>>
    /\ UNCHANGED <<now, tasks, issues, profiles, others, rq>>

----------------------------------------------------------------------------
(* GET /recommendations *)

EnterRecommendations ==
    /\ pc = "mw"
    /\ rq.route = "recommendations"
    /\ IF requireAdmin(rq.caller)
       THEN /\ loc' = loc
            /\ pc' = "r_users"
            /\ UNCHANGED <<cache, resp, hist>>
       ELSE /\ SendFrom(cache, 403, Forbidden, FALSE)
            /\ loc' = loc
    /\ UNCHANGED <<now, tasks, issues, profiles, others, rq, env>>

activeQuery(user) == Neq(userTasks(user), "status", "completed")

overdueQuery(user, nowIso) ==
    Neq(Lt(userTasks(user), "deadline", nowIso), "status", "completed")

RecStart == [step |-> "active", activeTasks |-> NullCount, overdueTasks |-> NullCount,
             nowIso |-> 0]

(* u.score || 100 *)
scoreOr100(score) == IF score = NullCount \/ score = 0 THEN 100 ELSE score

Names(rows) == [i \in 1..Len(rows) |-> rows[i].full_name]

NamesWithOverdue(rows) ==
    [i \in 1..Len(rows) |-> [name |-> rows[i].full_name, overdue |-> rows[i].overdueTasks]]

overloaded(u) == u.activeTasks > 10
underutilized(u) == u.activeTasks < 2
withOverdue(u) == u.overdueTasks > 0
lowScore(u) == scoreOr100(u.score) < 70

Recommendation(type, severity, rule, count, affected) ==
    [type |-> type, severity |-> severity, title |-> rule, count |-> count,
     affectedUsers |-> affected]

(* The four rules in turn, each pushing one entry when it matches someone. *)
(* title holds the rule's name in place of the Turkish title text, count   *)
(* the number the description quotes.                                      *)
recommendations(data) ==
    LET overloadedUsers == SelectRows(data, [i \in 1..Len(data) |-> overloaded(data[i])])
        underutilizedUsers == SelectRows(data, [i \in 1..Len(data) |-> underutilized(data[i])])
        usersWithOverdue == SelectRows(data, [i \in 1..Len(data) |-> withOverdue(data[i])])
        lowScoreUsers == SelectRows(data, [i \in 1..Len(data) |-> lowScore(data[i])])
    IN  (IF Len(overloadedUsers) > 0
         THEN <<Recommendation("workload", "warning", "overloaded",
                               Len(overloadedUsers), Names(overloadedUsers))>>
         ELSE <<>>)
     \o (IF Len(underutilizedUsers) > 0
         THEN <<Recommendation("workload", "info", "underutilized",
                               Len(underutilizedUsers), Names(underutilizedUsers))>>
         ELSE <<>>)
     \o (IF Len(usersWithOverdue) > 0
         THEN <<Recommendation("performance", "critical", "overdue",
                               Len(usersWithOverdue), NamesWithOverdue(usersWithOverdue))>>
         ELSE <<>>)
     \o (IF Len(lowScoreUsers) > 0
         THEN <<Recommendation("performance", "warning", "lowScore",
                               Len(lowScoreUsers), Names(lowScoreUsers))>>
         ELSE <<>>)

recWorkloadData(users, work) ==
    [i \in 1..Len(users) |->
        [id |-> users[i].id, full_name |-> users[i].full_name, score |-> users[i].score,
         activeTasks |-> OrZero(work[i].activeTasks),
         overdueTasks |-> OrZero(work[i].overdueTasks)]]

RecUsers ==
    /\ pc = "r_users"
    /\ \E ok \in BOOLEAN :
        /\ Await(ok)
        /\ LET r == Answer(ok, From("profiles"))
               l == Set(Set(Noted(loc, ok), "users", r.data),
                        "work", [i \in 1..Len(r.data) |-> RecStart])
           IN  /\ loc' = l
               /\ IF r.data = <<>> THEN Send(200, [data |-> recommendations(<<>>)])
                  ELSE /\ pc' = "r_fan"
                       /\ UNCHANGED <<cache, resp, hist>>
    /\ UNCHANGED <<now, tasks, issues, profiles, others, rq>>

RecStep(i) ==
    /\ pc = "r_fan"
    /\ i \in 1..Len(loc.users)
    /\ loc.work[i].step # "joined"
    /\ \E ok \in BOOLEAN :
        /\ Await(ok)
        /\ LET w == loc.work[i]
               r == Answer(ok, IF w.step = "active" THEN activeQuery(loc.users[i])
                               ELSE overdueQuery(loc.users[i], w.nowIso))
               w2 == IF w.step = "active"
                     THEN [w EXCEPT !.activeTasks = r.count, !.step = "overdue",
                                    !.nowIso = now]
                     ELSE [w EXCEPT !.overdueTasks = r.count, !.step = "joined"]
               work == [loc.work EXCEPT ![i] = w2]
           IN  /\ loc' = Set(Noted(loc, ok), "work", work)
               /\ IF \A j \in 1..Len(work) : work[j].step = "joined"
                  THEN Send(200, [data |-> recommendations(
                                               recWorkloadData(loc.users, work))])
                  ELSE UNCHANGED <<pc, cache, resp, hist>>
    /\ UNCHANGED <<now, tasks, issues, profiles, others, rq>>

----------------------------------------------------------------------------
(* GET /employees-summary *)

EnterEmployees ==
    /\ pc = "mw"
    /\ rq.route = "employees"
    /\ IF requireAdmin(rq.caller)
       THEN /\ loc' = loc
            /\ pc' = "e_users"
            /\ UNCHANGED <<cache, resp, hist>>
       ELSE /\ SendFrom(cache, 403, Forbidden, FALSE)
            /\ loc' = loc
    /\ UNCHANGED <<now, tasks, issues, profiles, others, rq, env>>

(* Date.getDay() of an instant: 1 January 1970 was a Thursday. *)
getDay(ms) == ((ms \div MS_PER_DAY) + 4) % 7

(* weekStart.setDate(weekStart.getDate() - weekStart.getDay()) on new Date() *)
weekStart(t) == AddDays(t, 0 - getDay(t))

completedThisWeekQuery(user, since) ==
    Gte(Eq(userTasks(user), "status", "completed"), "completed_at", since)

lateQuery(user) == Eq(userTasks(user), "late_completion", TRUE)

EmpStart == [step |-> "active", activeTasks |-> NullCount, completedThisWeek |-> NullCount,
             lateTasks |-> NullCount, overdueTasks |-> NullCount,
             weekStart |-> 0, nowIso |-> 0]

employeeQuery(user, w) ==
    CASE w.step = "active" -> activeQuery(user)
      [] w.step = "week" -> completedThisWeekQuery(user, w.weekStart)
      [] w.step = "late" -> lateQuery(user)
      [] w.step = "overdue" -> overdueQuery(user, w.nowIso)

(* The count of the awaited query is kept, and the handler runs on to its  *)
(* next await: new Date() is read after the first and the third query.     *)
EmpAdvance(w, count, t) ==
    CASE w.step = "active" ->
            [w EXCEPT !.activeTasks = count, !.step = "week", !.weekStart = weekStart(t)]
      [] w.step = "week" -> [w EXCEPT !.completedThisWeek = count, !.step = "late"]
      [] w.step = "late" -> [w EXCEPT !.lateTasks = count, !.step = "overdue", !.nowIso = t]
      [] w.step = "overdue" -> [w EXCEPT !.overdueTasks = count, !.step = "joined"]

employeeSummary(users, work) ==
    [i \in 1..Len(users) |->
        [activeTasks |-> OrZero(work[i].activeTasks),
         completedThisWeek |-> OrZero(work[i].completedThisWeek),
         lateTasks |-> OrZero(work[i].lateTasks),
         overdueTasks |-> OrZero(work[i].overdueTasks)] @@ users[i]]

EmpUsers ==
    /\ pc = "e_users"
    /\ \E ok \in BOOLEAN :
        /\ Await(ok)
        /\ LET r == Answer(ok, From("profiles"))
               l == Set(Set(Noted(loc, ok), "users", r.data),
                        "work", [i \in 1..Len(r.data) |-> EmpStart])
           IN  /\ loc' = l
               /\ IF r.error THEN Send(400, DatabaseError)
                  ELSE IF r.data = <<>> THEN Send(200, [data |-> <<>>])
                  ELSE /\ pc' = "e_fan"
                       /\ UNCHANGED <<cache, resp, hist>>
    /\ UNCHANGED <<now, tasks, issues, profiles, others, rq>>

EmpStep(i) ==
    /\ pc = "e_fan"
    /\ i \in 1..Len(loc.users)
    /\ loc.work[i].step # "joined"
    /\ \E ok \in BOOLEAN :
        /\ Await(ok)
        /\ LET r == Answer(ok, employeeQuery(loc.users[i], loc.work[i]))
               work == [loc.work EXCEPT ![i] = EmpAdvance(@, r.count, now)]
           IN  /\ loc' = Set(Noted(loc, ok), "work", work)
               /\ IF \A j \in 1..Len(work) : work[j].step = "joined"
                  THEN Send(200, [data |-> employeeSummary(loc.users, work)])
                  ELSE UNCHANGED <<pc, cache, resp, hist>>
    /\ UNCHANGED <<now, tasks, issues, profiles, others, rq>>

----------------------------------------------------------------------------
(* GET /late-tasks *)

EnterLateTasks ==
    /\ pc = "mw"
    /\ rq.route = "lateTasks"
    /\ IF requireAdmin(rq.caller)
       THEN /\ loc' = Set(loc, "nowIso", now)
            /\ pc' = "l_query"
            /\ UNCHANGED <<cache, resp, hist>>
       ELSE /\ SendFrom(cache, 403, Forbidden, FALSE)
            /\ loc' = loc
    /\ UNCHANGED <<now, tasks, issues, profiles, others, rq, env>>

lateTasksQuery(nowIso) == Neq(Lt(From("tasks"), "deadline", nowIso), "status", "completed")

(* .order('deadline', { ascending: true }): the rows in any order in which *)
(* the deadlines do not decrease; rows of equal deadline come in any order. *)
Ascending(rows, col) ==
    LET n == Len(rows)
        orders == {p \in [1..n -> 1..n] :
                      /\ \A i, j \in 1..n : p[i] = p[j] => i = j
                      /\ \A i \in 1..(n - 1) : rows[p[i]][col] <= rows[p[i + 1]][col]}
    IN  {[i \in 1..n |-> rows[p[i]]] : p \in orders}

(* assigned_to_profile:profiles!tasks_assigned_to_fkey(id, full_name, email) *)
assigned_to_profile(row) ==
    LET found == {i \in 1..Len(profiles) : profiles[i].id = row.assigned_to}
    IN  IF found = {} THEN Null
        ELSE LET u == profiles[CHOOSE i \in found : TRUE]
             IN  [id |-> u.id, full_name |-> u.full_name, email |-> u.email]

Embedded(rows) ==
    [i \in 1..Len(rows) |-> [assigned_to_profile |-> assigned_to_profile(rows[i])] @@ rows[i]]

LateTasksQuery ==
    /\ pc = "l_query"
    /\ \E ok \in BOOLEAN :
        /\ Await(ok)
        /\ LET r == Answer(ok, lateTasksQuery(loc.nowIso))
           IN  /\ loc' = Noted(loc, ok)
               /\ IF r.error THEN Send(400, DatabaseError)
                  ELSE \E data \in Ascending(r.data, "deadline") :
                           Send(200, [data |-> Embedded(data)])
    /\ UNCHANGED <<now, tasks, issues, profiles, others, rq>>

----------------------------------------------------------------------------
(* The environment: other clients write the tasks table through the task   *)
(* routes, time passes, and a client may drop its request.                 *)

InsertTask(row) ==
    /\ env.writes > 0
    /\ tasks' = Append(tasks, row)
    /\ env' = [env EXCEPT !.writes = @ - 1]
    /\ UNCHANGED <<now, issues, profiles, others, cache, pc, rq, loc, resp, hist>>

UpdateTask(i, status) ==
    /\ env.writes > 0
    /\ i \in 1..Len(tasks)
    /\ tasks[i].status # status
    /\ tasks' = [tasks EXCEPT ![i].status = status, ![i].updated_at = now]
    /\ env' = [env EXCEPT !.writes = @ - 1]
    /\ UNCHANGED <<now, issues, profiles, others, cache, pc, rq, loc, resp, hist>>

Tick ==
    /\ env.ticks > 0
    /\ now' = now + MS_PER_MINUTE
    /\ env' = [env EXCEPT !.ticks = @ - 1]
    /\ UNCHANGED <<tasks, issues, profiles, others, cache, pc, rq, loc, resp, hist>>

(* The client goes away while its request is in flight.  No handler has a  *)
(* listener for it: the handler runs on, and answers as it would have.     *)
Abort ==
    /\ InFlight
    /\ ~loc.clientGone
    /\ loc' = Set(loc, "clientGone", TRUE)
    /\ UNCHANGED <<now, tasks, issues, profiles, others, cache, pc, rq, resp, hist,
                   env>>

----------------------------------------------------------------------------
(* Data the specifications start from *)

Base == 10 * MS_PER_DAY
Hours(h) == h * 60 * MS_PER_MINUTE

(* A completed task was completed at its last update, late when that was   *)
(* after its deadline.                                                     *)
Task(status, priority, assigned_to, created_by, due, created_at, updated_at) ==
    [status |-> status, priority |-> priority, assigned_to |-> assigned_to,
     created_by |-> created_by, due_date |-> due, deadline |-> due,
     created_at |-> created_at, updated_at |-> updated_at,
     completed_at |-> IF status = "completed" THEN updated_at ELSE NullCount,
     late_completion |-> status = "completed" /\ due # NullCount /\ updated_at > due]

TaskA ==
    Task("not_started", "low", "u1", "a1", Base - MS_PER_DAY,
         Base - 2 * MS_PER_DAY + Hours(10), Base - 2 * MS_PER_DAY + Hours(10))
TaskB ==
    Task("completed", "high", "u1", "u1", Base + 5 * MS_PER_DAY,
         Base - MS_PER_DAY + Hours(8), Base - MS_PER_DAY + Hours(20))
TaskC ==
    Task("in_progress", "medium", "u2", "u1", Base - MS_PER_DAY,
         Base - 3 * MS_PER_DAY + Hours(1), Base - MS_PER_DAY + Hours(2))
TaskD ==
    Task("blocked", "critical", "u2", "a1", NullCount, Base + Hours(1), Base + Hours(1))
TaskE ==
    Task("completed", "low", "u2", "u2", Base - 4 * MS_PER_DAY,
         Base - 5 * MS_PER_DAY + Hours(3), Base - MS_PER_DAY + Hours(4))

(* 40 tasks of which 23 are completed: 23 / 40 * 100 is 57.49999999999999. *)
ManyTasks == [k \in 1..40 |-> IF k <= 23 THEN TaskB ELSE TaskA]

TaskSets ==
    {<<>>, <<TaskA>>, <<TaskB>>, <<TaskB, TaskC>>, <<TaskA, TaskB, TaskD, TaskE>>, ManyTasks}

Issue(status, priority, reported_by, suggested, assigned_to) ==
    [status |-> status, priority |-> priority, reported_by |-> reported_by,
     suggested_assignee_id |-> suggested, assigned_to |-> assigned_to]

IssueRows ==
    <<Issue("pending_assignment", "high", "u1", "u2", Null),
      Issue("assigned", "low", "u2", Null, "u1"),
      Issue("resolved", "critical", "a1", Null, "u2")>>

Profile(id, name, score) ==
    [id |-> id, full_name |-> name, email |-> id, score |-> score]

ProfileRows == <<Profile("u1", "Ada", 50), Profile("u2", "Bora", NullCount)>>

NoRequest == [route |-> "none", caller |-> Admin, days |-> NoParam]

Idle ==
    /\ cache = {}
    /\ hist = {}
    /\ pc = "idle"
    /\ others = <<>>
    /\ rq = NoRequest
    /\ loc = [storeError |-> FALSE, queries |-> 0, clientGone |-> FALSE]
    /\ resp = NoResponse

May(writes, fails, requests, ticks) ==
    env = [writes |-> writes, fails |-> fails, requests |-> requests, ticks |-> ticks]

----------------------------------------------------------------------------
(* The requests and the steps of each route *)

(* The decimal text of n >= 0. *)
RECURSIVE Decimal(_)
Decimal(n) ==
    LET digit == CHOOSE c \in DOMAIN Digit : Digit[c] = n % 10
    IN  IF n < 10 THEN <<digit>> ELSE Append(Decimal(n \div 10), digit)

DaysInputs ==
    {NoParam, Param(<<>>), Param(<<"a", "b">>), Param(<<" ", "2", "x">>),
     Param(<<"\t", "\\u00a0", "1">>)}
        \cup {Param(Decimal(n)) : n \in 0..MaxDays}
        \cup {Param(<<"-">> \o Decimal(n)) : n \in 1..MaxDays}

ArriveDashboard == \E c \in Callers : Arrive("dashboard", c, NoParam)
ArriveTrend == \E c \in Callers, d \in DaysInputs : Arrive("trend", c, d)
ArriveWorkload == \E c \in Callers : Arrive("workload", c, NoParam)
ArriveRecommendations == \E c \in Callers : Arrive("recommendations", c, NoParam)

Dashboard ==
    \/ EnterDashboard
    \/ DashTotal
    \/ DashCompleted
    \/ DashInProgress
    \/ DashPending
    \/ DashOverdue
    \/ DashTasks
    \/ DashIssues

Trend == EnterTrend \/ TrendQuery

Workload == EnterWorkload \/ WorkUsers \/ \E i \in 1..Len(profiles) : WorkStep(i)

Recommendations ==
    EnterRecommendations \/ RecUsers \/ \E i \in 1..Len(profiles) : RecStep(i)

ArriveEmployees == \E c \in Callers : Arrive("employees", c, NoParam)
ArriveLateTasks == \E c \in Callers : Arrive("lateTasks", c, NoParam)

Employees == EnterEmployees \/ EmpUsers \/ \E i \in 1..Len(profiles) : EmpStep(i)

LateTasks == EnterLateTasks \/ LateTasksQuery

Resumes == \E i \in 1..Len(others) : Resume(i)

Writes ==
    \/ \E row \in {TaskA, TaskB} : InsertTask(row)
    \/ \E st \in {"completed", "in_progress"} : UpdateTask(1, st)

----------------------------------------------------------------------------
(* Spec: one request to the dashboard, the trend or the workload route     *)
(* while other clients write tasks.                                        *)

Init ==
    /\ now \in {Base + Hours(9), Base + Hours(24) - MS_PER_MINUTE}
    /\ tasks \in TaskSets
    /\ issues = IssueRows
    /\ profiles = ProfileRows
    /\ Idle
    /\ May(MaxWrites, 0, 1, 0)

Next ==
    \/ ArriveDashboard
    \/ ArriveTrend
    \/ ArriveWorkload
    \/ Dashboard
    \/ Trend
    \/ Workload
    \/ Writes

Spec == Init /\ [][Next]_vars

----------------------------------------------------------------------------
(* SpecCache: requests to /dashboard and /task-completion-trend (TTL 5     *)
(* minutes) and to /user-workload (TTL 3 minutes) as time passes, one      *)
(* arriving while another is in flight.                                    *)

InitCache ==
    /\ now = Base + Hours(9)
    /\ tasks = <<TaskA, TaskB, TaskD>>
    /\ issues = IssueRows
    /\ profiles = <<Profile("u1", "Ada", 50)>>
    /\ Idle
    /\ May(0, 0, MaxRequests, MaxTicks)

ArriveTrendCached == \E c \in Callers : Arrive("trend", c, Param(<<"3">>))

ArriveCached ==
    \/ \E c \in {Admin, Member1} : Arrive("dashboard", c, NoParam)
    \/ \E c \in {Admin, Member1} : Arrive("trend", c, Param(<<"3">>))
    \/ Arrive("workload", Admin, NoParam)

NextCache ==
    \/ ArriveCached
    \/ Dashboard
    \/ Trend
    \/ Workload
    \/ Resumes
    \/ Tick

SpecCache == InitCache /\ [][NextCache]_vars

----------------------------------------------------------------------------
(* SpecScope: requests of the admin and of two members to /dashboard and   *)
(* /task-completion-trend, one arriving while another is in flight.        *)

InitScope ==
    /\ now = Base + Hours(9)
    /\ tasks = <<TaskA, TaskB, TaskD>>
    /\ issues = IssueRows
    /\ profiles = ProfileRows
    /\ Idle
    /\ May(0, 0, MaxRequests, 0)

NextScope ==
    \/ ArriveDashboard
    \/ ArriveTrendCached
    \/ Dashboard
    \/ Trend
    \/ Resumes

SpecScope == InitScope /\ [][NextScope]_vars

----------------------------------------------------------------------------
(* SpecFail: requests whose queries to the store may fail and whose client *)
(* may go away.                                                            *)

InitFail ==
    /\ now = Base + Hours(9)
    /\ tasks = <<TaskA, TaskB, TaskD, TaskE>>
    /\ issues = IssueRows
    /\ profiles = ProfileRows
    /\ Idle
    /\ May(0, MaxFails, MaxRequests, 0)

NextFail ==
    \/ ArriveDashboard
    \/ ArriveTrendCached
    \/ ArriveWorkload
    \/ ArriveEmployees
    \/ ArriveRecommendations
    \/ ArriveLateTasks
    \/ Dashboard
    \/ Trend
    \/ Workload
    \/ Employees
    \/ Recommendations
    \/ LateTasks
    \/ Resumes
    \/ Abort

SpecFail == InitFail /\ [][NextFail]_vars

----------------------------------------------------------------------------
(* SpecRec: one request of the admin to /recommendations over profiles     *)
(* with few or many active tasks, overdue tasks or none, and any score.    *)

(* n open tasks assigned to user, the first `late` of them past deadline.  *)
OpenTasks(user, n, late) ==
    [k \in 1..n |->
        Task("in_progress", "medium", user, "a1",
             IF k <= late THEN Base - MS_PER_DAY ELSE Base + 5 * MS_PER_DAY,
             Base - 2 * MS_PER_DAY, Base - 2 * MS_PER_DAY)]

ActiveCounts == {1, 2, 10, 11, 15}
Scores == {NullCount, 0, 50, 69, 70}

InitRec ==
    /\ now = Base + Hours(9)
    /\ \E n1 \in ActiveCounts, n2 \in ActiveCounts, l1 \in {0, 1}, l2 \in {0, 1} :
        tasks = OpenTasks("u1", n1, l1) \o <<TaskB>> \o OpenTasks("u2", n2, l2)
    /\ issues = IssueRows
    /\ \E s1 \in Scores, s2 \in Scores :
        profiles = <<Profile("u1", "Ada", s1), Profile("u2", "Bora", s2)>>
    /\ Idle
    /\ May(0, 0, 1, 0)

NextRec == Arrive("recommendations", Admin, NoParam) \/ Recommendations

SpecRec == InitRec /\ [][NextRec]_vars

----------------------------------------------------------------------------
(* SpecAdmin: requests of an admin and of members to the four admin-only   *)
(* routes, one arriving while another is in flight.                        *)

InitAdmin ==
    /\ now = Base + Hours(9)
    /\ tasks = <<TaskA, TaskB, TaskC, TaskD, TaskE>>
    /\ issues = IssueRows
    /\ profiles = ProfileRows
    /\ Idle
    /\ May(0, 0, MaxRequests, 0)

NextAdmin ==
    \/ ArriveWorkload
    \/ ArriveEmployees
    \/ ArriveRecommendations
    \/ ArriveLateTasks
    \/ Workload
    \/ Employees
    \/ Recommendations
    \/ LateTasks
    \/ Resumes

SpecAdmin == InitAdmin /\ [][NextAdmin]_vars

----------------------------------------------------------------------------
(* Claims *)

Answered(route) == pc = "done" /\ rq.route = route /\ resp.status = 200

C1_Visible(caller) ==
    Cardinality({i \in 1..Len(tasks) :
        \/ caller.role = "admin"
        \/ tasks[i].assigned_to = caller.id
        \/ tasks[i].created_by = caller.id})

C1_Role(id) == (CHOOSE c \in Callers : c.id = id).role

(* C1: on /dashboard and /task-completion-trend a caller is only ever      *)
(* answered with a payload computed under its own scope: the payload was   *)
(* computed for the caller itself or, for an admin, for an admin; every    *)
(* cache entry is keyed by the scope it was computed under; and the task   *)
(* total of a dashboard answer counts the rows the caller may see.         *)
C1_NoPayloadAcrossScopes ==
    /\ \A e \in cache :
        e.key.scope = (IF C1_Role(e.madeFor) = "admin" THEN "admin" ELSE e.madeFor)
    /\ (Answered("dashboard") \/ Answered("trend")) =>
        \/ resp.madeFor = rq.caller.id
        \/ rq.caller.role = "admin" /\ C1_Role(resp.madeFor) = "admin"
    /\ Answered("dashboard") => resp.body.data.tasks.total = C1_Visible(rq.caller)

(* A member is answered with its own dashboard, computed afresh, while a   *)
(* valid dashboard entry of another member and one of no other scope is in *)
(* the cache.                                                              *)
C1_Witness ==
    /\ Answered("dashboard")
    /\ rq.caller = Member2
    /\ ~resp.cached
    /\ resp.madeFor = "u2"
    /\ \E e \in cache :
        e.key.route = "dashboard" /\ e.madeFor = "u1" /\ Valid(e, loc.lookupAt)

C2_Window(route) == IF route = "workload" THEN 180000 ELSE 300000

C2_Latest(prior) == CHOOSE h \in prior : \A g \in prior : g.at <= h.at

(* C2: a request to a cached route that follows an answered request with   *)
(* the same route, scope and parameters is answered from the cache, with   *)
(* the payload stored then and without a query to the store, when it is    *)
(* looked up less than the TTL (5 minutes, 3 for user-workload) after the  *)
(* entry was stored, and is computed again otherwise.                      *)
C2_HitWithinTtlOnly ==
    \A route \in CachedRoutes :
        Answered(route) =>
            IF loc.prior = {} THEN ~resp.cached
            ELSE LET last == C2_Latest(loc.prior)
                 IN  IF loc.lookupAt < last.at + C2_Window(route)
                     THEN /\ resp.cached
                          /\ resp.body = last.payload
                          /\ loc.queries = 0
                     ELSE /\ ~resp.cached
                          /\ loc.queries > 0

(* A dashboard request is computed again once the entry is 5 minutes old. *)
C2_Witness ==
    /\ Answered("dashboard")
    /\ loc.prior # {}
    /\ ~resp.cached
    /\ loc.queries > 0
    /\ loc.lookupAt = C2_Latest(loc.prior).at + 300000

(* A dashboard request is answered from an entry 4 minutes old. *)
C2_WitnessHit ==
    /\ Answered("dashboard")
    /\ loc.prior # {}
    /\ resp.cached
    /\ loc.lookupAt = C2_Latest(loc.prior).at + 240000

(* A trend request is answered from an entry 4 minutes old. *)
C2_WitnessTrend ==
    /\ Answered("trend")
    /\ loc.prior # {}
    /\ resp.cached
    /\ loc.lookupAt = C2_Latest(loc.prior).at + 240000

(* A workload request is computed again once the entry is 3 minutes old. *)
C2_WitnessWorkload ==
    /\ Answered("workload")
    /\ loc.prior # {}
    /\ ~resp.cached
    /\ loc.lookupAt = C2_Latest(loc.prior).at + 180000

(* C3: in every answer of /dashboard the four counts of tasks.byStatus     *)
(* add up to tasks.total.                                                  *)
C3_StatusCountsAddUp ==
    Answered("dashboard") =>
        LET t == resp.body.data.tasks
        IN  t.byStatus.not_started + t.byStatus.in_progress + t.byStatus.completed
                + t.byStatus.blocked = t.total

(* C4: in every answer of /dashboard tasks.completed <= tasks.total and    *)
(* tasks.inProgress <= tasks.total, whatever other clients write between   *)
(* the handler's queries.                                                  *)
C4_SubCountsWithinTotal ==
    Answered("dashboard") =>
        LET t == resp.body.data.tasks
        IN  t.completed <= t.total /\ t.inProgress <= t.total

C5_Rates ==
    IF Answered("dashboard")
    THEN LET t == resp.body.data.tasks
         IN  {[rate |-> t.completionRate, total |-> t.total, completed |-> t.completed]}
    ELSE IF Answered("workload")
    THEN {[rate |-> resp.body.data[i].completionRate,
           total |-> resp.body.data[i].totalTasks,
           completed |-> resp.body.data[i].completedTasks] :
             i \in 1..Len(resp.body.data)}
    ELSE {}

(* C5: completionRate is an integer in 0..100, and it is 0 exactly when    *)
(* the total is 0: it is 0 when the total is 0 and it is not 0 when the    *)
(* total is positive.                                                      *)
C5_RateZeroExactlyWhenNoTasks ==
    \A r \in C5_Rates : r.rate \in 0..100 /\ (r.rate = 0 <=> r.total = 0)

C6_Days == {[param |-> Param(Decimal(n)), n |-> n] : n \in 1..MaxDays}
              \cup {[param |-> NoParam, n |-> 30]}

(* C6: for a positive integer days (30 when the parameter is absent) the   *)
(* trend holds exactly days buckets, the first for the day today - days,   *)
(* each next one for the following day.                                    *)
C6_BucketsAreTheDaysBefore ==
    \A d \in C6_Days :
        (Answered("trend") /\ rq.days = d.param) =>
            LET data == resp.body.data
            IN  /\ Len(data) = d.n
                /\ data[1].date = (loc.lookupAt \div 86400000) - d.n
                /\ \A k \in 1..(d.n - 1) : data[k + 1].date = data[k].date + 1

(* Three buckets are answered, one of them for a day without activity. *)
C6_Witness ==
    /\ Answered("trend")
    /\ rq.days = Param(<<"3">>)
    /\ Len(resp.body.data) = 3
    /\ \E k \in 1..3 : resp.body.data[k].created = 0 /\ resp.body.data[k].completed = 0
    /\ \E k \in 1..3 : resp.body.data[k].created > 0

C7_BadDays ==
    rq.route = "trend" /\ rq.days.present
        /\ (parseInt(rq.days.text).nan \/ parseInt(rq.days.text).val <= 0)

(* C7: a trend request whose days is non-positive or not a number is       *)
(* answered with an error or with at least one bucket, and never queries   *)
(* a range that starts after it ends.                                      *)
C7_BadDaysRejectedOrClamped ==
    C7_BadDays =>
        /\ pc = "done" =>
            \/ resp.status >= 400
            \/ resp.status = 200 /\ Len(resp.body.data) >= 1
        /\ pc = "t_query" => loc.startDate <= loc.endDate

C8_Rules == <<"overloaded", "underutilized", "overdue", "lowScore">>

C8_Severity(rule) ==
    CASE rule = "overloaded" -> "warning"
      [] rule = "underutilized" -> "info"
      [] rule = "overdue" -> "critical"
      [] rule = "lowScore" -> "warning"

(* The score of a profile: the stored one, 100 when none is stored. *)
C8_Score(u) == IF u.score = NullCount THEN 100 ELSE u.score

C8_Match(rule, u) ==
    CASE rule = "overloaded" -> u.activeTasks > 10
      [] rule = "underutilized" -> u.activeTasks < 2
      [] rule = "overdue" -> u.overdueTasks > 0
      [] rule = "lowScore" -> C8_Score(u) < 70

C8_Matching(rule, data) == {i \in 1..Len(data) : C8_Match(rule, data[i])}

C8_Name(rule, affected) == IF rule = "overdue" THEN affected.name ELSE affected

C8_Open(id) ==
    Cardinality({i \in 1..Len(tasks) :
        tasks[i].assigned_to = id /\ tasks[i].status # "completed"})

(* C8: the answer of /recommendations is the list of the rules overloaded  *)
(* (activeTasks > 10), underutilized (activeTasks < 2), has-overdue        *)
(* (overdueTasks > 0) and low-score (score < 70), in this order, that      *)
(* match some profile; each entry has the rule's severity and names        *)
(* exactly the profiles the rule matches, whatever other rules match them. *)
C8_RulesInOrderAndIndependent ==
    Answered("recommendations") =>
        LET data == recWorkloadData(loc.users, loc.work)
            out == resp.body.data
            fired == SelectSeq(C8_Rules, LAMBDA r : C8_Matching(r, data) # {})
        IN  /\ \A i \in 1..Len(data) : data[i].activeTasks = C8_Open(data[i].id)
            /\ Len(out) = Len(fired)
            /\ \A k \in 1..Len(out) :
                /\ out[k].title = fired[k]
                /\ out[k].severity = C8_Severity(fired[k])
                /\ Len(out[k].affectedUsers) = Cardinality(C8_Matching(fired[k], data))
                /\ {C8_Name(fired[k], out[k].affectedUsers[j]) :
                        j \in 1..Len(out[k].affectedUsers)}
                     = {data[i].full_name : i \in C8_Matching(fired[k], data)}

(* C9: a request during which a query to the store failed is answered 400  *)
(* with the store's error, never with a success.                           *)
C9_StoreErrorAnswered400 ==
    (pc = "done" /\ loc.storeError) => resp.status = 400 /\ resp.body = DatabaseError

(* C10: no cache write ever comes from a computation in which a query      *)
(* failed; a request of which a query failed, or that was answered 400 or  *)
(* 500, writes nothing to the cache; and neither does a request whose      *)
(* client went away before it was answered.                                *)
C10_FailedRequestLeavesCache ==
    /\ \A h \in hist : ~h.storeError
    /\ (pc = "done" /\ (loc.storeError \/ resp.status \in {400, 500})) => ~resp.stored
    /\ (pc = "done" /\ loc.clientGone) => ~resp.stored

C11_AdminRoutes == {"workload", "employees", "recommendations", "lateTasks"}

(* C11: on /user-workload, /employees-summary, /recommendations and        *)
(* /late-tasks a caller who is no admin is rejected before anything else:  *)
(* its request never enters the handler and sends no query to the store,   *)
(* looks nothing up in the cache, and is answered 403 and never with a     *)
(* cached payload; and no cache entry of these routes was ever written     *)
(* for another scope than admin.                                           *)
C11_NonAdminRejectedFirst ==
    /\ \A h \in hist : h.key.route \in C11_AdminRoutes => h.key.scope = "admin"
    /\ \A e \in cache : e.key.route \in C11_AdminRoutes => e.key.scope = "admin"
    /\ (rq.route \in C11_AdminRoutes /\ ~isAdmin(rq.caller)) =>
        /\ pc \in {"mw", "done"}
        /\ loc.queries = 0
        /\ "lookupAt" \notin DOMAIN loc
        /\ pc = "done" =>
            /\ resp.status = 403
            /\ resp.body = Forbidden
            /\ ~resp.cached

(* A member is answered 403 on /user-workload while the payload of an      *)
(* admin's earlier request is a valid entry of the cache.                  *)
C11_Witness ==
    /\ pc = "done"
    /\ rq.route = "workload"
    /\ rq.caller = Member1
    /\ resp.status = 403
    /\ \E e \in cache : e.key.route = "workload" /\ Valid(e, now)

C12_Scope(caller) ==
    {i \in 1..Len(tasks) :
        \/ isAdmin(caller)
        \/ tasks[i].assigned_to = caller.id
        \/ tasks[i].created_by = caller.id}

C12_Day(ms) == ms \div 86400000

(* C12: in an answer of /task-completion-trend computed from the tasks as  *)
(* they still are, every bucket's completed is the number of tasks in the  *)
(* caller's scope with status completed whose updated_at is on the         *)
(* bucket's day, whenever they were created, and its created is the number *)
(* of tasks in the caller's scope whose created_at is on that day.         *)
C12_BucketsCountScopeTasks ==
    (Answered("trend") /\ env.writes = MaxWrites) =>
        \A k \in 1..Len(resp.body.data) :
            LET b == resp.body.data[k]
                mine == C12_Scope(rq.caller)
            IN  /\ b.completed =
                       Cardinality({i \in mine :
                           /\ tasks[i].status = "completed"
                           /\ C12_Day(tasks[i].updated_at) = b.date})
                /\ b.created =
                       Cardinality({i \in mine : C12_Day(tasks[i].created_at) = b.date})

(* The score the claim goes by: the stored one, 100 when none is stored. *)
C13_EffectiveScore(score) == IF score = NullCount THEN 100 ELSE score

(* C13: in an answer of /recommendations a profile is named by the         *)
(* low-score entry exactly when its stored score, or 100 when it has none, *)
(* is below 70; a stored score of 0 counts as 0.                           *)
C13_LowScoreByStoredScore ==
    Answered("recommendations") =>
        \A i \in 1..Len(profiles) :
            C13_EffectiveScore(profiles[i].score) < 70
                <=> \E k \in 1..Len(resp.body.data) :
                        /\ resp.body.data[k].title = "lowScore"
                        /\ \E j \in 1..Len(resp.body.data[k].affectedUsers) :
                               resp.body.data[k].affectedUsers[j] = profiles[i].full_name

====
